---- MODULE Spec2Model ----
(***************************************************************************)
(* Request pipeline of the Fastify application: the JWT plugin with its    *)
(* authenticate hook (app/src/plugins/jwt.ts) and the global error handler *)
(* (plugins/error-handler.ts), driven by the framework's per-request       *)
(* lifecycle: onRequest hooks, validation, handler, reply.                 *)
(*                                                                         *)
(* Optional JavaScript values (undefined or a value) are sets with at most *)
(* one element; an unset or empty environment variable is "".              *)
(***************************************************************************)
EXTENDS Integers, Sequences, FiniteSets, TLC

\* Bounds of the model.
MaxRequests == 1
MaxTime == 2
MaxShutdowns == 2

RequestIds == 1..MaxRequests

\* The request slots of the server: one more than the pipeline specification
\* uses, for the specification of concurrent requests.
Slots == 1..(MaxRequests + 1)

\* --------------------------------------------------------------- environment

\* process.env.NODE_ENV; "" is unset.
NodeEnvs == {"production", "development", "test", ""}

\* process.env.JWT_SECRET at registration; "" is unset.
JwtSecretEnvs == {"", "test-secret-key"}

DevelopmentSecret == "development-secret-change-in-production"

\* const secret = process.env.JWT_SECRET || "development-secret-..."
RegisteredSecret(jwtSecretEnv) ==
    IF jwtSecretEnv = "" THEN DevelopmentSecret ELSE jwtSecretEnv

\* Mutant: the warning is logged in test mode too.
RegistrationWarningsAnyMode(jwtSecretEnvNow, nodeEnvNow) ==
    IF jwtSecretEnvNow = "" THEN <<"warn">> ELSE <<>>

\* if (!process.env.JWT_SECRET && process.env.NODE_ENV !== "test")
\*     fastify.log.warn("JWT_SECRET not set ...")
RegistrationWarnings(jwtSecretEnvNow, nodeEnvNow) ==
    IF jwtSecretEnvNow = "" /\ nodeEnvNow # "test" THEN <<"warn">> ELSE <<>>

\* sign: { expiresIn: "1h" }, in ticks of the model clock (one tick is one hour).
ExpiresIn == 1

\* --------------------------------------------------------------- tokens

\* Claim sets callers sign.
ClaimSets == { [userId |-> 123], [userId |-> 456, role |-> "user"] }

NoClaims == [k \in {} |-> 0]

\* expiresIn options of jwt.sign, in ticks: "1ms" is less than a tick.
OneMillisecond == 0
ExpiryOptions == {OneMillisecond, ExpiresIn}

\* Mutant: only the registered claims are signed, the caller's fields are lost.
SignWithRegisteredClaimsOnly(payload, key, t, expiresIn) ==
    LET p == [iat |-> t, exp |-> t + expiresIn]
    IN  [wellFormed |-> TRUE, payload |-> p, sig |-> [key |-> key, payload |-> p]]

\* jwt.sign(payload, {expiresIn}): adds iat and exp, and signs the payload
\* with the key. The signature is the pair of key and signed payload.
SignWith(payload, key, t, expiresIn) ==
    LET p == payload @@ [iat |-> t, exp |-> t + expiresIn]
    IN  [wellFormed |-> TRUE, payload |-> p, sig |-> [key |-> key, payload |-> p]]

\* jwt.sign(payload) with the registered sign options.
Sign(payload, key, t) == SignWith(payload, key, t, ExpiresIn)

\* A string that is not three decodable segments ("invalid-token").
GarbageToken ==
    [wellFormed |-> FALSE, payload |-> NoClaims, sig |-> [key |-> "", payload |-> NoClaims]]

\* A token whose payload was replaced after signing.
Tamper(tok, payload) == [tok EXCEPT !.payload = payload @@ tok.payload]

AttackerKey == "attacker-key"

NoAuthorization == [present |-> FALSE, scheme |-> "", cred |-> {}]
Bearer(tok) == [present |-> TRUE, scheme |-> "Bearer", cred |-> {tok}]

\* --------------------------------------------------------------- failures

\* A failure record (FastifyError): message, optional code, optional
\* statusCode, optional validation list, and the stack of the Error.
Failure(message, code, statusCode, validation) ==
    [message |-> message, code |-> code, statusCode |-> statusCode,
     validation |-> validation, stack |-> "Error: " \o message]

\* The errors request.jwtVerify() rejects with.
JwtError(code, statusCode) == Failure("jwt verification failed", {code}, {statusCode}, {})

NoAuthorizationInHeader == JwtError("FST_JWT_NO_AUTHORIZATION_IN_HEADER", 401)
BadAuthorizationFormat == JwtError("FST_JWT_BAD_REQUEST", 400)
TokenInvalid == JwtError("FST_JWT_AUTHORIZATION_TOKEN_INVALID", 401)
TokenExpired == JwtError("FST_JWT_AUTHORIZATION_TOKEN_EXPIRED", 401)

VerifyOk(claims) == [ok |-> TRUE, user |-> {claims}, error |-> {}]
VerifyFail(err) == [ok |-> FALSE, user |-> {}, error |-> {err}]

\* Mutant: the expiry of the token is not looked at.
JwtVerifyOutcomesIgnoreExpiration(hdr, secret, t) ==
    IF ~hdr.present THEN {VerifyFail(NoAuthorizationInHeader)}
    ELSE IF hdr.scheme # "Bearer" THEN {VerifyFail(BadAuthorizationFormat)}
    ELSE IF hdr.cred = {} THEN {VerifyFail(NoAuthorizationInHeader)}
    ELSE LET tok == CHOOSE x \in hdr.cred : TRUE IN
         IF ~tok.wellFormed THEN {VerifyFail(TokenInvalid)}
         ELSE IF tok.sig # [key |-> secret, payload |-> tok.payload]
              THEN {VerifyFail(TokenInvalid)}
         ELSE {VerifyOk(tok.payload)}

\* request.jwtVerify(): the outcomes for an Authorization header. With a clock
\* of whole ticks, a verification in the tick of the expiry may fall just
\* before or just after it.
JwtVerifyOutcomes(hdr, secret, t) ==
    IF ~hdr.present THEN {VerifyFail(NoAuthorizationInHeader)}
    ELSE IF hdr.scheme # "Bearer" THEN {VerifyFail(BadAuthorizationFormat)}
    ELSE IF hdr.cred = {} THEN {VerifyFail(NoAuthorizationInHeader)}
    ELSE LET tok == CHOOSE x \in hdr.cred : TRUE IN
         IF ~tok.wellFormed THEN {VerifyFail(TokenInvalid)}
         ELSE IF tok.sig # [key |-> secret, payload |-> tok.payload]
              THEN {VerifyFail(TokenInvalid)}
         ELSE IF t < tok.payload.exp THEN {VerifyOk(tok.payload)}
         ELSE IF t > tok.payload.exp THEN {VerifyFail(TokenExpired)}
         ELSE {VerifyOk(tok.payload), VerifyFail(TokenExpired)}

\* --------------------------------------------------------------- replies

\* The JSON object under "error" of an error response.
ErrorBody(message, code, statusCode, validation, stack) ==
    [message |-> message, code |-> code, statusCode |-> statusCode,
     validation |-> validation, stack |-> stack]

\* A response: HTTP status, the component that sent it, the "error" object
\* of the body (if any) and the success payload (if any).
Response(status, by, error, data) ==
    [status |-> status, by |-> by, error |-> error, data |-> data]

\* reply.send(payload) on the reply of request r: the first send is the
\* response; the reply object accepts no second one.
Sent(r, response) ==
    [r EXCEPT !.resp = IF r.resp = {} THEN {response} ELSE r.resp,
              !.sentHeaders = IF r.resp = {} THEN r.replyHeaders ELSE @,
              !.sends = @ + 1]

\* Mutant: the catch block passes the jwt error's status and code on.
UnauthorizedReplyLeaky(err) ==
    Response(CHOOSE sc \in err.statusCode : TRUE, "gate",
             {ErrorBody("Unauthorized", err.code, CHOOSE sc \in err.statusCode : TRUE, {}, {})}, {})

\* authenticate's catch block: reply.code(401).send({error: {...}})
UnauthorizedReply(err) ==
    Response(401, "gate",
             {ErrorBody("Unauthorized", {"UNAUTHORIZED"}, 401, {}, {})}, {})

\* --------------------------------------------------------------- error handler

\* Mutant: a statusCode below 400 is taken for 500.
ResolveStatusAtLeast400(err) ==
    IF \E sc \in err.statusCode : sc >= 400
    THEN CHOOSE sc \in err.statusCode : TRUE
    ELSE 500

\* const statusCode = error.statusCode ?? 500
ResolveStatus(err) ==
    IF err.statusCode = {} THEN 500 ELSE CHOOSE s \in err.statusCode : TRUE

\* if (statusCode >= 500) log.error ... else if (statusCode >= 400) log.warn
LogEntries(statusCode) ==
    IF statusCode >= 500 THEN <<"error">>
    ELSE IF statusCode >= 400 THEN <<"warn">>
    ELSE <<>>

\* Mutant: the stack is added in development only.
StackFieldDevelopmentOnly(err, nodeEnvNow) ==
    IF nodeEnvNow = "development" THEN {err.stack} ELSE {}

\* ...(process.env.NODE_ENV !== "production" && { stack: error.stack })
StackField(err, nodeEnvNow) ==
    IF nodeEnvNow # "production" THEN {err.stack} ELSE {}

\* code: error.code || "VALIDATION_ERROR"
ValidationCode(err) ==
    IF err.code = {} THEN {"VALIDATION_ERROR"} ELSE err.code

\* Mutant: the validation branch keeps the failure's own status.
ValidationReplyNominalStatus(err, nodeEnvNow) ==
    Response(ResolveStatus(err), "normalizer",
             {ErrorBody("Validation failed", ValidationCode(err), ResolveStatus(err),
                        err.validation, StackField(err, nodeEnvNow))}, {})

\* Mutant: the validation branch answers 422 but writes the failure's own
\* status into the body.
ValidationReplyBodyKeepsStatus(err, nodeEnvNow) ==
    Response(422, "normalizer",
             {ErrorBody("Validation failed", ValidationCode(err), ResolveStatus(err),
                        err.validation, StackField(err, nodeEnvNow))}, {})

\* if (error.validation) return reply.status(422).send({...})
ValidationReply(err, nodeEnvNow) ==
    Response(422, "normalizer",
             {ErrorBody("Validation failed", ValidationCode(err), 422,
                        err.validation, StackField(err, nodeEnvNow))}, {})

\* return reply.status(statusCode).send({...})
StructuredReply(err, nodeEnvNow) ==
    Response(ResolveStatus(err), "normalizer",
             {ErrorBody(err.message, err.code, ResolveStatus(err), {},
                        StackField(err, nodeEnvNow))}, {})

\* reply.status(code) accepts 100..599 and throws FST_ERR_BAD_STATUS_CODE
\* otherwise.
ReplyStatusAccepts(code) == code >= 100 /\ code <= 599

BadStatusCode ==
    Failure("Called reply with an invalid status code", {"FST_ERR_BAD_STATUS_CODE"}, {500}, {})

\* The framework's default error handler, which takes over when the
\* handler set by setErrorHandler throws: the error's status when >= 400,
\* else 500, and the framework's own body (no "error" object).
DefaultReply(err) ==
    Response(IF ResolveStatus(err) >= 400 THEN ResolveStatus(err) ELSE 500,
             "default", {}, {})

\* The schema validation layer's failure for a request that fails the
\* route's schema.
SchemaValidationFailure ==
    Failure("querystring must have required property 'name'",
            {"FST_ERR_VALIDATION"}, {400}, {<<"required:name">>})

\* Mutant: the handler keeps a module-level flag and adds the stack to the
\* first response only.
ErrorHandlerApplyStackOnce(r, err, nodeEnvNow) ==
    LET statusCode == ResolveStatus(err)
        stackMode == IF r.prev = {} THEN nodeEnvNow ELSE "production"
        logged == [r EXCEPT !.ehCalls = @ + 1,
                            !.raised = {err},
                            !.mode = {nodeEnvNow},
                            !.log = @ \o LogEntries(statusCode),
                            !.pc = "done"]
    IN  IF err.validation # {}
        THEN Sent(logged, ValidationReply(err, stackMode))
        ELSE IF ReplyStatusAccepts(statusCode)
        THEN Sent(logged, StructuredReply(err, stackMode))
        ELSE Sent([logged EXCEPT !.log = @ \o <<"error">>], DefaultReply(BadStatusCode))

\* Mutant: the validation branch does not return, so the handler goes on to
\* the second reply.status(...).send(...).
ErrorHandlerApplyNoReturn(r, err, nodeEnvNow) ==
    LET statusCode == ResolveStatus(err)
        logged == [r EXCEPT !.ehCalls = @ + 1,
                            !.raised = {err},
                            !.mode = {nodeEnvNow},
                            !.log = @ \o LogEntries(statusCode),
                            !.pc = "done"]
        first == IF err.validation # {}
                 THEN Sent(logged, ValidationReply(err, nodeEnvNow))
                 ELSE logged
    IN  IF ReplyStatusAccepts(statusCode)
        THEN Sent(first, StructuredReply(err, nodeEnvNow))
        ELSE Sent([first EXCEPT !.log = @ \o <<"error">>], DefaultReply(BadStatusCode))

\* The handler given to setErrorHandler, applied to request r and a failure.
ErrorHandlerApply(r, err, nodeEnvNow) ==
    LET statusCode == ResolveStatus(err)
        logged == [r EXCEPT !.ehCalls = @ + 1,
                            !.raised = {err},
                            !.mode = {nodeEnvNow},
                            !.log = @ \o LogEntries(statusCode),
                            !.pc = "done"]
    IN  IF err.validation # {}
        THEN Sent(logged, ValidationReply(err, nodeEnvNow))
        ELSE IF ReplyStatusAccepts(statusCode)
        THEN Sent(logged, StructuredReply(err, nodeEnvNow))
        ELSE Sent([logged EXCEPT !.log = @ \o <<"error">>], DefaultReply(BadStatusCode))

\* --------------------------------------------------------------- state

VARIABLES
    requests,   \* per request id: the request, its reply and what was observed of it
    now,        \* the clock, in ticks
    nodeEnv,    \* process.env.NODE_ENV
    secret,     \* the secret the JWT plugin was registered with
    jwtSecretEnv, \* process.env.JWT_SECRET
    serverLog,  \* what was logged through fastify.log
    jwtApi,     \* the last fastify.jwt.sign and fastify.jwt.verify calls
    proc        \* the process: its shutdown sequences and its exit

vars == <<requests, now, nodeEnv, secret, jwtSecretEnv, serverLog, jwtApi, proc>>

\* No call of fastify.jwt.sign or fastify.jwt.verify was made yet.
NoJwtCalls ==
    [claims |-> {}, token |-> {}, secretEnvAtSign |-> {}, verifiedAt |-> {}, outcome |-> {}]

\* The process after startup: no shutdown sequence was started, process.exit
\* was not called.
RunningProcess == [sequences |-> <<>>, exits |-> <<>>]

\* The headers on a reply nothing was set on.
NoReplyHeaders == [xRequestId |-> {}, allowOrigin |-> {}, allowCredentials |-> {}]

\* What a route handler does: return {user: request.user}, or throw a failure.
\* "invalid" is a request that fails the route's schema, so that the
\* validation layer rejects it before the handler.
Returns == [kind |-> "return", failure |-> {}]
Throws(f) == [kind |-> "throw", failure |-> {f}]
Invalid == [kind |-> "invalid", failure |-> {}]

\* Handlers that call request.jwtVerify() themselves: one lets a rejection
\* propagate, the other catches it and returns its own 401 body.
VerifyInHandler == [kind |-> "verify", failure |-> {}]
VerifyAndCatch == [kind |-> "verifyCatch", failure |-> {}]
VerifyingKinds == {"verify", "verifyCatch"}

\* A request slot nothing has arrived in.
IdleRequest ==
    [pc |-> "idle", guarded |-> FALSE, auth |-> NoAuthorization,
     behaviour |-> Returns,
     verify |-> "idle",        \* request.jwtVerify(): idle, pending, settled
     gateFailed |-> FALSE,     \* authenticate's catch block ran
     user |-> {},              \* request.user
     handlerRan |-> FALSE,
     seenUser |-> {},          \* request.user as the handler read it
     gateAtHandler |-> "idle", \* verify when the handler began
     ehCalls |-> 0,            \* invocations of the error handler
     raised |-> {},            \* the failure the error handler was given
     mode |-> {},              \* NODE_ENV when the error handler ran
     log |-> <<>>,             \* severities logged through request.log
     resp |-> {},              \* the response sent
     sends |-> 0,              \* calls of reply.send
     verifyError |-> {},       \* what request.jwtVerify() threw inside the handler
     origin |-> {},            \* the Origin header
     preflight |-> FALSE,      \* an OPTIONS request with access-control-request-method
     xRequestId |-> {},        \* the X-Request-Id header
     corsCallbacks |-> <<>>,   \* the calls of the CORS origin callback
     id |-> {},                \* request.id as the request-logging hook set it
     seenId |-> {},            \* request.id as the handler read it
     replyHeaders |-> NoReplyHeaders,  \* headers set on the reply
     sentHeaders |-> NoReplyHeaders,   \* headers the response went out with
     abortedAt |-> "",         \* pc at which the client disconnected, if it did
     prev |-> {}]              \* failure, mode and response of the request before

\* --------------------------------------------------------------- request inputs

\* Authorization headers a client may send at time t.
AuthHeaders(key, t) ==
    {NoAuthorization,
     [present |-> TRUE, scheme |-> "Basic", cred |-> {GarbageToken}],
     [present |-> TRUE, scheme |-> "Bearer", cred |-> {}],
     Bearer(GarbageToken)}
    \cup {Bearer(Sign(c, key, s)) : c \in ClaimSets, s \in 0..t}
    \cup {Bearer(Sign(c, AttackerKey, t)) : c \in ClaimSets}
    \cup {Bearer(Tamper(Sign([userId |-> 123], key, t), [userId |-> 999]))}

PlainError == Failure("Internal server error", {}, {}, {})
ForbiddenError == Failure("Custom error", {"CUSTOM_ERROR_CODE"}, {403}, {})

\* Handler behaviours of the routes of the pipeline specification.
Behaviours == {Returns, Invalid, Throws(PlainError), Throws(ForbiddenError)}

\* --------------------------------------------------------------- steps of a request

\* Mutant: request.jwtVerify() is not awaited, so the hook resolves at once.
AuthenticateCallNoAwait(r) == [r EXCEPT !.pc = "hook_resolved", !.verify = "pending"]

\* fastify.authenticate, up to its await: request.jwtVerify() is started and
\* the hook is suspended on it.
AuthenticateCall(r) == [r EXCEPT !.pc = "awaiting", !.verify = "pending"]

\* Mutant: no catch block, the rejection goes to the error handler.
AuthenticateRethrow(r, err) ==
    ErrorHandlerApply([r EXCEPT !.verify = "settled"], err, "development")

\* Mutant: the catch block logs the rejection before it answers.
AuthenticateCatchLogs(r, err) ==
    Sent([r EXCEPT !.verify = "settled", !.gateFailed = TRUE, !.pc = "hook_resolved",
                   !.log = @ \o <<"warn">>],
         UnauthorizedReply(err))

\* authenticate's catch block: the 401 is sent from inside the hook and the
\* failure goes no further.
AuthenticateCatch(r, err) ==
    Sent([r EXCEPT !.verify = "settled", !.gateFailed = TRUE, !.pc = "hook_resolved"],
         UnauthorizedReply(err))

\* Mutant: the token is verified without putting the claim set on request.user.
AuthenticateSettleNoUser(r, out) ==
    IF out.ok
    THEN [r EXCEPT !.verify = "settled", !.pc = "hook_resolved"]
    ELSE AuthenticateCatch(r, CHOOSE e \in out.error : TRUE)

\* fastify.authenticate once request.jwtVerify() has settled with outcome
\* out: on success request.jwtVerify() has put the claim set on request.user;
\* on failure the catch block runs. Either way the hook's promise resolves.
AuthenticateSettle(r, out) ==
    IF out.ok
    THEN [r EXCEPT !.verify = "settled", !.user = out.user, !.pc = "hook_resolved"]
    ELSE AuthenticateCatch(r, CHOOSE e \in out.error : TRUE)

\* The route handler runs: async (request) => ({ user: request.user }), or one
\* that throws.
RunHandler(r) ==
    IF r.behaviour.kind \in VerifyingKinds
    THEN [r EXCEPT !.handlerRan = TRUE, !.gateAtHandler = r.verify,
                   !.verify = "pending", !.pc = "handler_awaiting"]
    ELSE [r EXCEPT !.handlerRan = TRUE, !.seenUser = r.user, !.seenId = r.id,
                   !.gateAtHandler = r.verify, !.pc = "handler_settled"]

\* The 401 of a handler that caught the rejection itself:
\* reply.code(401); return { error: "Unauthorized" }
HandlerOwnUnauthorized ==
    Response(401, "handler", {}, {[error |-> "Unauthorized"]})

\* Mutant: request.jwtVerify() answers a bad credential itself, like the hook.
HandlerVerifySettledReplies(r, out) ==
    IF out.ok
    THEN [r EXCEPT !.verify = "settled", !.user = out.user, !.seenUser = out.user,
                   !.pc = "handler_settled"]
    ELSE Sent([r EXCEPT !.verify = "settled", !.verifyError = out.error,
                        !.pc = "handler_settled"],
              UnauthorizedReply(CHOOSE e \in out.error : TRUE))

\* await request.jwtVerify() inside a handler settles with outcome out: on
\* success request.user is set and the handler reads it; on failure the
\* rejection is thrown into the handler.
HandlerVerifySettled(r, out) ==
    IF out.ok
    THEN [r EXCEPT !.verify = "settled", !.user = out.user, !.seenUser = out.user,
                   !.pc = "handler_settled"]
    ELSE [r EXCEPT !.verify = "settled", !.verifyError = out.error,
                   !.pc = "handler_settled"]

\* After the onRequest hooks: schema validation, then the handler.
PreHandler(r, nodeEnvNow) ==
    IF r.behaviour.kind = "invalid"
    THEN ErrorHandlerApply(r, SchemaValidationFailure, nodeEnvNow)
    ELSE RunHandler(r)

\* Mutant: the hook runner goes on although the reply was sent.
HookRunnerNextIgnoresSent(r, nodeEnvNow) == PreHandler(r, nodeEnvNow)

\* The hook runner once the onRequest hook's promise has resolved: nothing
\* more runs for a reply that was sent.
HookRunnerNext(r, nodeEnvNow) ==
    IF r.resp # {} THEN [r EXCEPT !.pc = "done"] ELSE PreHandler(r, nodeEnvNow)

\* The handler's promise settles: its value is sent with 200, its rejection
\* goes to the error handler.
HandlerSettled(r, nodeEnvNow) ==
    IF r.behaviour.kind = "throw"
    THEN ErrorHandlerApply(r, CHOOSE f \in r.behaviour.failure : TRUE, nodeEnvNow)
    ELSE IF r.verifyError # {} /\ r.behaviour.kind = "verifyCatch"
    THEN Sent([r EXCEPT !.pc = "done"], HandlerOwnUnauthorized)
    ELSE IF r.verifyError # {}
    THEN ErrorHandlerApply(r, CHOOSE f \in r.verifyError : TRUE, nodeEnvNow)
    ELSE Sent([r EXCEPT !.pc = "done"],
              Response(200, "handler", {}, {[user |-> r.seenUser]}))

\* --------------------------------------------------------------- actions

\* Registration of the plugins: the secret is read from JWT_SECRET.
Init ==
    /\ requests = [i \in Slots |-> IdleRequest]
    /\ now = 0
    /\ nodeEnv \in NodeEnvs
    /\ jwtSecretEnv \in JwtSecretEnvs
    /\ secret = RegisteredSecret(jwtSecretEnv)
    /\ serverLog = RegistrationWarnings(jwtSecretEnv, nodeEnv)
    /\ jwtApi = NoJwtCalls
    /\ proc = RunningProcess

\* A request arrives (ids are given in order of arrival).
Arrive(i, guards, headers, behaviours) ==
    /\ requests[i].pc = "idle"
    /\ \A j \in Slots : j < i => requests[j].pc # "idle"
    /\ \E g \in guards, h \in headers, b \in behaviours :
         requests' = [requests EXCEPT ![i] =
             [requests[i] EXCEPT !.pc = "routed", !.guarded = g,
                                 !.auth = IF g THEN h ELSE NoAuthorization,
                                 !.behaviour = b]]
    /\ UNCHANGED <<now, nodeEnv, secret, jwtSecretEnv, serverLog, jwtApi, proc>>

Receive(i) == Arrive(i, BOOLEAN, AuthHeaders(secret, now), Behaviours)

\* The route's onRequest hooks start: authenticate on a guarded route.
Dispatch(i) ==
    /\ requests[i].pc = "routed"
    /\ requests' = [requests EXCEPT ![i] =
          IF requests[i].guarded THEN AuthenticateCall(requests[i])
          ELSE PreHandler(requests[i], nodeEnv)]
    /\ UNCHANGED <<now, nodeEnv, secret, jwtSecretEnv, serverLog, jwtApi, proc>>

\* Mutant: the verified claim set is kept on the server instance, so every
\* request in flight sees the identity verified last.
JwtVerifySettleShared(i) ==
    /\ requests[i].verify = "pending"
    /\ \E out \in JwtVerifyOutcomes(requests[i].auth, secret, now) :
         requests' = [j \in Slots |->
             IF j = i THEN AuthenticateSettle(requests[i], out)
             ELSE IF out.ok /\ requests[j].pc \notin {"idle", "done"}
                  THEN [requests[j] EXCEPT !.user = out.user]
                  ELSE requests[j]]
    /\ UNCHANGED <<now, nodeEnv, secret, jwtSecretEnv, serverLog, jwtApi, proc>>

\* request.jwtVerify() settles.
JwtVerifySettle(i) ==
    /\ requests[i].verify = "pending"
    /\ \E out \in JwtVerifyOutcomes(requests[i].auth, secret, now) :
         requests' = [requests EXCEPT ![i] = AuthenticateSettle(requests[i], out)]
    /\ UNCHANGED <<now, nodeEnv, secret, jwtSecretEnv, serverLog, jwtApi, proc>>

\* The hook runner continues after authenticate's promise resolved.
HookResolve(i) ==
    /\ requests[i].pc = "hook_resolved"
    /\ requests' = [requests EXCEPT ![i] = HookRunnerNext(requests[i], nodeEnv)]
    /\ UNCHANGED <<now, nodeEnv, secret, jwtSecretEnv, serverLog, jwtApi, proc>>

\* The handler's promise settles.
HandlerSettle(i) ==
    /\ requests[i].pc = "handler_settled"
    /\ requests' = [requests EXCEPT ![i] = HandlerSettled(requests[i], nodeEnv)]
    /\ UNCHANGED <<now, nodeEnv, secret, jwtSecretEnv, serverLog, jwtApi, proc>>

\* Time passes.
Tick ==
    /\ now < MaxTime
    /\ now' = now + 1
    /\ UNCHANGED <<requests, nodeEnv, secret, jwtSecretEnv, serverLog, jwtApi, proc>>

Next ==
    \/ \E i \in RequestIds : Receive(i)
    \/ \E i \in RequestIds : Dispatch(i)
    \/ \E i \in RequestIds : JwtVerifySettle(i)
    \/ \E i \in RequestIds : HookResolve(i)
    \/ \E i \in RequestIds : HandlerSettle(i)
    \/ Tick

Spec == Init /\ [][Next]_vars

\* --------------------------------------------------------------- error handler runs

\* statusCode values of the failures handlers throw: none, and values below,
\* inside and above the range reply.status accepts.
StatusCodes ==
    {{}, {0}, {99}, {100}, {302}, {399}, {400}, {422}, {499}, {500}, {599}, {600}}

ErrorCodes == {{}, {"CUSTOM"}}

\* validation: none, an empty list, a list of violations.
ValidationLists == {{}, {<<>>}, {<<"required:name">>}}

FailureRecords ==
    {Failure("boom", c, s, v) : c \in ErrorCodes, s \in StatusCodes, v \in ValidationLists}

FailingBehaviours == {Invalid} \cup {Throws(f) : f \in FailureRecords}

\* A request to an unguarded route whose handler throws, or that fails the
\* route's schema.
ReceiveFailing == Arrive(1, {FALSE}, {NoAuthorization}, FailingBehaviours)

\* process.env.NODE_ENV is assigned (as the error handler's tests do).
SetNodeEnv(m) ==
    /\ nodeEnv # m
    /\ nodeEnv' = m
    /\ UNCHANGED <<requests, now, secret, jwtSecretEnv, serverLog, jwtApi, proc>>

\* The request is over; the next one arrives in a fresh request object.
Recycle(i) ==
    /\ requests[i].pc = "done"
    /\ requests' = [requests EXCEPT ![i] = IdleRequest]
    /\ UNCHANGED <<now, nodeEnv, secret, jwtSecretEnv, serverLog, jwtApi, proc>>

NextNormalizer ==
    \/ ReceiveFailing
    \/ Dispatch(1)
    \/ HandlerSettle(1)
    \/ Recycle(1)
    \/ \E m \in NodeEnvs : SetNodeEnv(m)

SpecNormalizer == Init /\ [][NextNormalizer]_vars

\* --------------------------------------------------------------- the Auth Gate's claims

\* The fixed response of the gate, as the specification states it.
Unauthorized401 ==
    [status |-> 401, by |-> "gate",
     error |-> {[message |-> "Unauthorized", code |-> {"UNAUTHORIZED"},
                 statusCode |-> 401, validation |-> {}, stack |-> {}]},
     data |-> {}]

\* The header carries a token signed with the registered secret.
SignedByServer(r) ==
    \E c \in ClaimSets, s \in 0..MaxTime : r.auth = Bearer(Sign(c, secret, s))

\* The token of such a header.
TokenOf(r) == CHOOSE tok \in r.auth.cred : TRUE

\* A guarded request whose verification is over and did not yield a claim set.
VerificationFailed(r) == r.guarded /\ r.verify = "settled" /\ r.user = {}

\* C1: every guarded request whose verification fails, whatever the cause
\* (no header, a scheme other than Bearer, an empty or undecodable token, a
\* bad signature, an expired token), is answered 401 with exactly the body
\* {error: {message: "Unauthorized", code: "UNAUTHORIZED", statusCode: 401}}.
C1_GateFailureIsUniform401 ==
    \A i \in RequestIds :
        VerificationFailed(requests[i]) => requests[i].resp = {Unauthorized401}

\* An expired token with a good signature was rejected, and a header with
\* another scheme too (two different causes can be reached).
C1_Witness ==
    \E i \in RequestIds :
        /\ requests[i].pc = "done"
        /\ VerificationFailed(requests[i])
        /\ SignedByServer(requests[i])
        /\ now >= TokenOf(requests[i]).payload.exp

\* C2: the handler of a request the gate rejected is never invoked.
C2_RejectedNeverReachesHandler ==
    \A i \in RequestIds :
        (requests[i].gateFailed \/ VerificationFailed(requests[i]))
            => ~requests[i].handlerRan

\* A rejected request is over, and its handler did not run.
C2_Witness ==
    \E i \in RequestIds :
        /\ requests[i].pc = "done"
        /\ requests[i].gateFailed
        /\ ~requests[i].handlerRan
        /\ requests[i].behaviour.kind = "return"

\* C3: the gate's verification is over before the handler begins: no handler
\* has run while request.jwtVerify() is pending, and a guarded request's
\* handler began with the verification settled.
C3_GateSettlesBeforeHandler ==
    \A i \in RequestIds :
        /\ requests[i].verify = "pending" => ~requests[i].handlerRan
        /\ (requests[i].guarded /\ requests[i].handlerRan)
               => requests[i].gateAtHandler = "settled"

\* The handler of a guarded request has run.
C3_Witness ==
    \E i \in RequestIds :
        /\ requests[i].guarded
        /\ requests[i].handlerRan
        /\ requests[i].gateAtHandler = "settled"

\* C4: a guarded request with "Bearer <token>", the token signed with the
\* registered secret and not expired, passes the gate with the decoded claim
\* set on request.user; every signed claim is in it; a handler that then runs
\* (the request passing the route's schema) reads that claim set, and the
\* route returning {user: request.user} answers 200 with it.
C4_ValidTokenReachesHandler ==
    \A i \in RequestIds : \A c \in ClaimSets, s \in 0..MaxTime :
        LET r == requests[i]
            tok == Sign(c, secret, s)
        IN  (r.guarded /\ r.auth = Bearer(tok) /\ r.verify = "settled"
                /\ now < tok.payload.exp)
            => /\ ~r.gateFailed
               /\ r.user # {}
               /\ \A u \in r.user : \A k \in DOMAIN c : u[k] = c[k]
               /\ (r.pc \in {"handler_settled", "done"} /\ r.behaviour.kind # "invalid")
                     => (r.handlerRan /\ r.seenUser = r.user)
               /\ (r.pc = "done" /\ r.behaviour.kind = "return")
                     => \E u \in r.user :
                            r.resp = {[status |-> 200, by |-> "handler",
                                       error |-> {}, data |-> {[user |-> {u}]}]}

\* sign {userId: 123}, call the protected route: 200 with userId 123.
C4_Witness ==
    \E i \in RequestIds :
        /\ requests[i].pc = "done"
        /\ requests[i].guarded
        /\ \E resp \in requests[i].resp :
              /\ resp.status = 200
              /\ \E d \in resp.data : \E u \in d.user : u.userId = 123

\* C5: a verification failure is recovered inside the gate: the error handler
\* is not invoked for it, nothing is logged through it, and the response
\* carries no stack.
C5_GateFailureStaysInGate ==
    \A i \in RequestIds :
        VerificationFailed(requests[i])
            => /\ requests[i].ehCalls = 0
               /\ requests[i].raised = {}
               /\ requests[i].log = <<>>
               /\ \A resp \in requests[i].resp : \A e \in resp.error : e.stack = {}

\* A forged token was rejected outside production, where the error handler
\* would have added a stack.
C5_Witness ==
    \E i \in RequestIds :
        /\ requests[i].gateFailed
        /\ requests[i].resp # {}
        /\ requests[i].ehCalls = 0
        /\ nodeEnv # "production"
        /\ \E c \in ClaimSets, s \in 0..MaxTime :
              requests[i].auth = Bearer(Sign(c, AttackerKey, s))

\* --------------------------------------------------------------- the Error Normalizer's claims

\* The responses the handler set by setErrorHandler sent itself.
NormalizerResponses(r) == {resp \in r.resp : resp.by = "normalizer"}

C7_BodyStatusCodeIs4xxOr5xx ==
    \A i \in RequestIds : \A resp \in NormalizerResponses(requests[i]) :
        /\ resp.error # {}
        /\ \A e \in resp.error : e.statusCode >= 400 /\ e.statusCode <= 599

\* C8: a failure with a validation list, whatever its statusCode, is answered
\* 422 with error.statusCode 422, error.code the failure's code or else
\* "VALIDATION_ERROR", and error.validation the failure's list; a failure
\* without a validation list gets no error.validation.
C8_ValidationForcedTo422 ==
    \A i \in RequestIds : \A f \in requests[i].raised :
        /\ f.validation # {}
             => /\ requests[i].resp # {}
                /\ \A resp \in requests[i].resp :
                      /\ resp.status = 422
                      /\ resp.error # {}
                      /\ \A e \in resp.error :
                            /\ e.statusCode = 422
                            /\ e.code = IF f.code = {} THEN {"VALIDATION_ERROR"} ELSE f.code
                            /\ e.validation = f.validation
        /\ f.validation = {}
             => \A resp \in requests[i].resp : \A e \in resp.error : e.validation = {}

\* A failure with a validation list, no code and statusCode 500 was answered
\* 422 with code VALIDATION_ERROR.
C8_Witness ==
    \E i \in RequestIds : \E f \in requests[i].raised : \E resp \in requests[i].resp :
        /\ f.validation # {}
        /\ f.code = {}
        /\ f.statusCode = {500}
        /\ resp.status = 422
        /\ \E e \in resp.error : e.code = {"VALIDATION_ERROR"}

C10_SeverityFollowsResponseStatus ==
    \A i \in RequestIds : \A resp \in NormalizerResponses(requests[i]) :
        /\ resp.status >= 500 => requests[i].log = <<"error">>
        /\ (resp.status >= 400 /\ resp.status < 500) => requests[i].log = <<"warn">>

\* --------------------------------------------------------------- the Error Normalizer, continued

\* C11: for every failure without a validation list that a handler throws,
\* the response is the Error Normalizer's and carries the failure's own
\* message and code unchanged, with the failure's status (its statusCode
\* when in 100..599, else 500).
C11_FailureKeepsMessageAndCode ==
    \A i \in RequestIds : \A f \in requests[i].raised :
        (requests[i].behaviour.kind = "throw" /\ f.validation = {}) =>
            \E p \in requests[i].resp :
                /\ p.by = "normalizer"
                /\ p.status = (IF \E sc \in f.statusCode : sc >= 100 /\ sc <= 599
                               THEN CHOOSE sc \in f.statusCode : TRUE
                               ELSE 500)
                /\ \E e \in p.error : e.message = f.message /\ e.code = f.code

\* --------------------------------------------------------------- the same failure, twice

\* The first request of a pair: any failing request.
ReceiveFirst ==
    /\ requests[1].prev = {}
    /\ ReceiveFailing

\* The first request is over: what the error handler was given and what it
\* answered is kept for comparison, and the request object is gone.
Remember(i) ==
    /\ requests[i].pc = "done"
    /\ requests[i].prev = {}
    /\ requests' = [requests EXCEPT ![i] =
          [IdleRequest EXCEPT !.prev =
              {[behaviour |-> requests[i].behaviour, failure |-> requests[i].raised,
                mode |-> requests[i].mode, resp |-> requests[i].resp]}]]
    /\ UNCHANGED <<now, nodeEnv, secret, jwtSecretEnv, serverLog, jwtApi, proc>>

\* The second request of a pair fails in the same way as the first.
ReceiveSame(i) ==
    /\ requests[i].prev # {}
    /\ Arrive(i, {FALSE}, {NoAuthorization}, {p.behaviour : p \in requests[i].prev})

NextRepeat ==
    \/ ReceiveFirst
    \/ Dispatch(1)
    \/ HandlerSettle(1)
    \/ Remember(1)
    \/ ReceiveSame(1)
    \/ Recycle(1)
    \/ \E m \in NodeEnvs : SetNodeEnv(m)

SpecRepeat == Init /\ [][NextRepeat]_vars

\* The error handler has answered the same failure a second time.
FormattedAgain(r, p) == r.pc = "done" /\ r.raised = p.failure

OutOfRangeError == Failure("boom", {"CUSTOM"}, {600}, {})

\* Authorization headers of the progress specification: none, an undecodable
\* token, and a token signed at time 0 (valid, then expired as time passes).
LiveHeaders(key) ==
    {NoAuthorization, Bearer(GarbageToken), Bearer(Sign([userId |-> 123], key, 0))}

LiveBehaviours == Behaviours \cup {Throws(OutOfRangeError)}

ReceiveLive(i) == Arrive(i, BOOLEAN, LiveHeaders(secret), LiveBehaviours)

NextLive ==
    \/ \E i \in RequestIds : ReceiveLive(i)
    \/ \E i \in RequestIds : Dispatch(i)
    \/ \E i \in RequestIds : JwtVerifySettle(i)
    \/ \E i \in RequestIds : HookResolve(i)
    \/ \E i \in RequestIds : HandlerSettle(i)
    \/ Tick

\* The event loop runs every continuation that is ready: a started hook, a
\* settled verification, a resolved hook and a settled handler are each
\* taken up. Nothing obliges a client to send a request or time to pass.
EventLoopFairness ==
    \A i \in RequestIds :
        /\ WF_vars(Dispatch(i))
        /\ WF_vars(JwtVerifySettle(i))
        /\ WF_vars(HookResolve(i))
        /\ WF_vars(HandlerSettle(i))

SpecLive == Init /\ [][NextLive]_vars /\ EventLoopFairness

\* C13: every request that arrived is eventually answered, reply.send is
\* never called twice for a request, and a request that is over has exactly
\* one response: a gate rejection, a schema rejection and a failure thrown
\* by the handler each end in a response.
C13_EveryRequestAnsweredOnce ==
    /\ [](\A i \in RequestIds :
            /\ requests[i].sends <= 1
            /\ requests[i].pc = "done" =>
                   (requests[i].sends = 1 /\ requests[i].resp # {}))
    /\ \A i \in RequestIds :
           (requests[i].pc = "routed") ~> (requests[i].pc = "done")

\* A request whose handler threw a failure the error handler itself fails
\* on is over, with its one response.
C13_Witness ==
    \E i \in RequestIds :
        /\ requests[i].pc = "done"
        /\ requests[i].raised = {OutOfRangeError}
        /\ requests[i].sends = 1
        /\ requests[i].resp # {}

\* --------------------------------------------------------------- fastify.jwt.sign and fastify.jwt.verify

\* Claim sets given to fastify.jwt.sign directly.
ApiClaimSets == ClaimSets \cup {[sub |-> "12345", iss |-> "test-issuer"]}

\* Tokens a caller holds that fastify.jwt.sign did not issue.
ForeignTokens(t) == {GarbageToken} \cup {Sign(c, AttackerKey, t) : c \in ClaimSets}

\* Mutant: the secret is read from the environment at every call.
JwtSignReadsEnv(c, e) ==
    /\ jwtApi' = [claims |-> {c},
                  token |-> {SignWith(c, RegisteredSecret(jwtSecretEnv), now, e)},
                  secretEnvAtSign |-> {jwtSecretEnv},
                  verifiedAt |-> {}, outcome |-> {}]
    /\ UNCHANGED <<requests, now, nodeEnv, secret, jwtSecretEnv, serverLog, proc>>

\* const token = fastify.jwt.sign(payload, {expiresIn})
JwtSign(c, e) ==
    /\ jwtApi' = [claims |-> {c}, token |-> {SignWith(c, secret, now, e)},
                  secretEnvAtSign |-> {jwtSecretEnv},
                  verifiedAt |-> {}, outcome |-> {}]
    /\ UNCHANGED <<requests, now, nodeEnv, secret, jwtSecretEnv, serverLog, proc>>

\* The caller takes a token from elsewhere.
JwtPresent(tok) ==
    /\ jwtApi' = [claims |-> {}, token |-> {tok}, secretEnvAtSign |-> {},
                  verifiedAt |-> {}, outcome |-> {}]
    /\ UNCHANGED <<requests, now, nodeEnv, secret, jwtSecretEnv, serverLog, proc>>

\* fastify.jwt.verify(token): returns the claim set or throws.
JwtVerify ==
    /\ \E tok \in jwtApi.token :
       \E out \in JwtVerifyOutcomes(Bearer(tok), secret, now) :
           jwtApi' = [jwtApi EXCEPT !.verifiedAt = {now}, !.outcome = {out}]
    /\ UNCHANGED <<requests, now, nodeEnv, secret, jwtSecretEnv, serverLog, proc>>

NextJwt ==
    \/ \E c \in ApiClaimSets, e \in ExpiryOptions : JwtSign(c, e)
    \/ \E tok \in ForeignTokens(now) : JwtPresent(tok)
    \/ JwtVerify
    \/ Tick

SpecJwt == Init /\ [][NextJwt]_vars

C16_SecretAndWarningAtRegistration ==
    /\ jwtSecretEnv = "" =>
          /\ secret = DevelopmentSecret
          /\ serverLog = IF nodeEnv = "test" THEN <<>> ELSE <<"warn">>
    /\ jwtSecretEnv # "" =>
          /\ secret = jwtSecretEnv
          /\ serverLog = <<>>

\* Registered in test mode without JWT_SECRET: nothing was logged, and a
\* guarded request with a token signed with the development secret was let
\* through.
C16_Witness ==
    /\ jwtSecretEnv = ""
    /\ nodeEnv = "test"
    /\ serverLog = <<>>
    /\ \E i \in RequestIds :
          /\ requests[i].user # {}
          /\ \E tok \in requests[i].auth.cred : tok.sig.key = DevelopmentSecret

\* --------------------------------------------------------------- request.jwtVerify called by a handler

\* A request to a route without the gate whose handler verifies the
\* credential itself.
ReceiveVerifying(i) ==
    /\ requests[i].pc = "idle"
    /\ \A j \in Slots : j < i => requests[j].pc # "idle"
    /\ \E h \in AuthHeaders(secret, now), b \in {VerifyInHandler, VerifyAndCatch} :
         requests' = [requests EXCEPT ![i] =
             [requests[i] EXCEPT !.pc = "routed", !.auth = h, !.behaviour = b]]
    /\ UNCHANGED <<now, nodeEnv, secret, jwtSecretEnv, serverLog, jwtApi, proc>>

\* request.jwtVerify() called by the handler settles.
HandlerVerifySettle(i) ==
    /\ requests[i].pc = "handler_awaiting"
    /\ \E out \in JwtVerifyOutcomes(requests[i].auth, secret, now) :
         requests' = [requests EXCEPT ![i] = HandlerVerifySettled(requests[i], out)]
    /\ UNCHANGED <<now, nodeEnv, secret, jwtSecretEnv, serverLog, jwtApi, proc>>

NextPrimitive ==
    \/ \E i \in RequestIds : ReceiveVerifying(i)
    \/ \E i \in RequestIds : Dispatch(i)
    \/ \E i \in RequestIds : HandlerVerifySettle(i)
    \/ \E i \in RequestIds : HandlerSettle(i)
    \/ Tick

SpecPrimitive == Init /\ [][NextPrimitive]_vars

\* C17: request.jwtVerify() called by a handler writes no response: when it
\* has settled nothing was sent, on a bad credential it throws into the
\* handler, and the response is the caller's: exactly {error: "Unauthorized"}
\* with 401 from a handler that catches, and the error handler's answer to
\* the thrown jwt error from a handler that does not.
C17_PrimitiveLeavesResponseToCaller ==
    \A i \in RequestIds :
        LET r == requests[i] IN
        r.behaviour.kind \in VerifyingKinds =>
            /\ ~r.gateFailed
            /\ r.pc = "handler_settled" => (r.resp = {} /\ r.sends = 0)
            /\ (r.pc = "done" /\ r.verifyError # {} /\ r.behaviour.kind = "verifyCatch") =>
                  /\ r.resp = {[status |-> 401, by |-> "handler", error |-> {},
                                data |-> {[error |-> "Unauthorized"]}]}
                  /\ r.sends = 1
                  /\ r.ehCalls = 0
            /\ (r.pc = "done" /\ r.verifyError # {} /\ r.behaviour.kind = "verify") =>
                  /\ r.raised = r.verifyError
                  /\ r.sends = 1
                  /\ \A p \in r.resp : p.by = "normalizer"

\* A handler that catches was sent a header that is not a Bearer credential
\* and answered with its own 401 body.
C17_Witness ==
    \E i \in RequestIds :
        /\ requests[i].pc = "done"
        /\ requests[i].behaviour = VerifyAndCatch
        /\ requests[i].auth.scheme = "Basic"
        /\ requests[i].verifyError = {BadAuthorizationFormat}
        /\ requests[i].resp = {HandlerOwnUnauthorized}

\* --------------------------------------------------------------- requests in flight together

\* Authorization headers of the concurrency specification: none, a valid
\* token for each of two users, and a token signed with another key.
ConcurrentHeaders(key) ==
    {NoAuthorization, Bearer(Sign([userId |-> 123], AttackerKey, 0))}
    \cup {Bearer(Sign(c, key, 0)) : c \in ClaimSets}

ConcurrentBehaviours == {Returns, Throws(ForbiddenError)}

ReceiveConcurrent(i) ==
    Arrive(i, BOOLEAN, ConcurrentHeaders(secret), ConcurrentBehaviours)

\* Any number of requests are in flight, and their steps interleave freely.
NextConcurrent ==
    \/ \E i \in Slots : ReceiveConcurrent(i)
    \/ \E i \in Slots : Dispatch(i)
    \/ \E i \in Slots : JwtVerifySettle(i)
    \/ \E i \in Slots : HookResolve(i)
    \/ \E i \in Slots : HandlerSettle(i)

SpecConcurrent == Init /\ [][NextConcurrent]_vars

\* The request's own header carries a token the server signed (none of the
\* tokens of this specification expires while it runs).
OwnTokenValid(r) == \E c \in ClaimSets : r.auth = Bearer(Sign(c, secret, 0))

\* C18: whatever the interleaving with the other requests in flight, a
\* request's identity and response are those of its own inputs alone:
\* request.user is never anything but the claim set of its own token, a
\* guarded request without a valid token of its own gets the fixed 401 and
\* no handler, and otherwise the handler's result: 200 with the request's
\* own identity, or the error handler's answer to the handler's own failure.
C18_RequestsAreIndependent ==
    \A i \in Slots :
        LET r == requests[i] IN
        /\ r.user \subseteq {tok.payload : tok \in r.auth.cred}
        /\ r.pc = "done" =>
             IF r.guarded /\ ~OwnTokenValid(r)
             THEN r.resp = {Unauthorized401} /\ ~r.handlerRan
             ELSE IF r.behaviour = Returns
             THEN r.resp = {[status |-> 200, by |-> "handler", error |-> {},
                             data |-> {[user |-> IF r.guarded
                                                 THEN {TokenOf(r).payload}
                                                 ELSE {}]}]}
             ELSE /\ r.raised = r.behaviour.failure
                  /\ \A p \in r.resp :
                       /\ p.status = 403
                       /\ p.by = "normalizer"
                       /\ \A e \in p.error :
                            e.message = "Custom error" /\ e.code = {"CUSTOM_ERROR_CODE"}

\* The request that arrived second was answered with its own identity while
\* the verification of the first, which carries a forged token, is still in
\* flight.
C18_Witness ==
    /\ requests[1].pc = "awaiting"
    /\ requests[1].auth = Bearer(Sign([userId |-> 123], AttackerKey, 0))
    /\ requests[2].pc = "done"
    /\ requests[2].guarded
    /\ \E p \in requests[2].resp : p.status = 200 /\ \E d \in p.data : d.user # {}

\* --------------------------------------------------------------- the client disconnects

\* A request to a guarded route.
ReceiveGuarded(i) ==
    Arrive(i, {TRUE}, LiveHeaders(secret), {Returns, Throws(PlainError)})

\* Mutant: the disconnect cancels the request: nothing more runs for it.
ClientDisconnectCancels(i) ==
    /\ requests[i].pc \notin {"idle", "done"}
    /\ requests[i].abortedAt = ""
    /\ requests' = [requests EXCEPT ![i].abortedAt = requests[i].pc, ![i].pc = "done"]
    /\ UNCHANGED <<now, nodeEnv, secret, jwtSecretEnv, serverLog, jwtApi, proc>>

\* The client closes the connection while its request is in flight. Neither
\* authenticate nor the error handler looks at the connection, and the hook
\* runner stops only for a reply that was sent: the request goes on.
ClientDisconnect(i) ==
    /\ requests[i].pc \notin {"idle", "done"}
    /\ requests[i].abortedAt = ""
    /\ requests' = [requests EXCEPT ![i].abortedAt = requests[i].pc]
    /\ UNCHANGED <<now, nodeEnv, secret, jwtSecretEnv, serverLog, jwtApi, proc>>

NextDisconnect ==
    \/ \E i \in RequestIds : ReceiveGuarded(i)
    \/ \E i \in RequestIds : Dispatch(i)
    \/ \E i \in RequestIds : ClientDisconnect(i)
    \/ \E i \in RequestIds : JwtVerifySettle(i)
    \/ \E i \in RequestIds : HookResolve(i)
    \/ \E i \in RequestIds : HandlerSettle(i)
    \/ Tick

SpecDisconnect == Init /\ [][NextDisconnect]_vars

\* The client of the request disconnected while the gate's verification was
\* in flight.
DisconnectedDuringVerification(r) == r.abortedAt = "awaiting"

\* C19 as stated: when the client disconnects while the gate's verification
\* of its request is in flight, the route handler of that request never runs.
C19_DisconnectedNeverReachesHandler ==
    \A i \in RequestIds :
        DisconnectedDuringVerification(requests[i]) => ~requests[i].handlerRan

\* C19, amended: when the client disconnects while the gate's verification
\* of its request is in flight, the verification still completes and the
\* request ends as it would have: with the gate's 401 and no handler when
\* the verification failed, with the handler's run when it succeeded.
C19_DisconnectChangesNothing ==
    \A i \in RequestIds :
        LET r == requests[i] IN
        (DisconnectedDuringVerification(r) /\ r.pc = "done") =>
            /\ r.verify = "settled"
            /\ r.handlerRan <=> r.user # {}
            /\ r.user = {} => r.resp = {Unauthorized401}
            /\ r.sends = 1

\* The client of a request with a valid token disconnected during the
\* verification; the verification succeeded and the handler ran.
C19_Witness ==
    \E i \in RequestIds :
        /\ DisconnectedDuringVerification(requests[i])
        /\ requests[i].pc = "done"
        /\ requests[i].user # {}
        /\ requests[i].handlerRan

\* --------------------------------------------------------------- who produces error responses

\* C20: every response with a status of 400 or more, other than the gate's
\* fixed 401, was sent by the error handler and has the body
\* {error: {message, statusCode, ...}}.
C20_NormalizerIsSoleErrorProducer ==
    \A i \in RequestIds : \A p \in requests[i].resp :
        (p.status >= 400 /\ p # Unauthorized401) =>
            /\ p.by = "normalizer"
            /\ \E e \in p.error : e.statusCode = p.status

\* --------------------------------------------------------------- the assembled application

\* Values of the Origin header, with what new URL(origin) makes of each: the
\* parsed URL, or nothing when the constructor throws.
Url(scheme, hostname, port) == [scheme |-> scheme, hostname |-> hostname, port |-> port]
OriginValue(text, url) == [text |-> text, url |-> url]

Origins ==
    {{},
     {OriginValue("", {})},
     {OriginValue("http://localhost:3000", {Url("http", "localhost", "3000")})},
     {OriginValue("https://localhost", {Url("https", "localhost", "")})},
     {OriginValue("http://127.0.0.1:3000", {Url("http", "127.0.0.1", "3000")})},
     {OriginValue("https://evil.com", {Url("https", "evil.com", "")})},
     {OriginValue("http://localhost.evil.com", {Url("http", "localhost.evil.com", "")})},
     {OriginValue("null", {})}}

\* if (!origin): the header is missing or empty.
OriginMissing(origin) == \A o \in origin : o.text = ""

\* The calls of the callback of the origin function.
CallbackAllow == [error |-> {}, allow |-> TRUE]
CallbackDeny == [error |-> {"Not allowed by CORS"}, allow |-> FALSE]

\* origin: (origin, callback) => { ... }: the calls of callback it makes, and
\* whether it throws (new URL(origin) throws for a value that is no URL).
CorsOrigin(origin) ==
    IF OriginMissing(origin)
    THEN [callbacks |-> <<CallbackAllow>>, threw |-> FALSE]
    ELSE LET o == CHOOSE x \in origin : TRUE IN
         IF o.url = {} THEN [callbacks |-> <<>>, threw |-> TRUE]
         ELSE LET hostname == (CHOOSE u \in o.url : TRUE).hostname IN
              IF hostname = "localhost" \/ hostname = "127.0.0.1"
              THEN [callbacks |-> <<CallbackAllow>>, threw |-> FALSE]
              ELSE [callbacks |-> <<CallbackDeny>>, threw |-> FALSE]

\* The failures the CORS hook ends a request with.
NotAllowedByCors == Failure("Not allowed by CORS", {}, {}, {})
InvalidUrl == Failure("Invalid URL", {"ERR_INVALID_URL"}, {}, {})

\* The onRequest hook of @fastify/cors with the origin function and
\* credentials: true. An error of the origin function, passed to the callback
\* or thrown, ends the hooks and goes to the error handler; an allowed
\* request gets the headers, and a preflight is answered 204 by the hook.
CorsOnRequest(r, nodeEnvNow) ==
    LET res == CorsOrigin(r.origin)
        called == [r EXCEPT !.corsCallbacks = res.callbacks]
        allowed == [called EXCEPT
                       !.replyHeaders.allowOrigin =
                           {o.text : o \in {x \in r.origin : x.text # ""}},
                       !.replyHeaders.allowCredentials = {"true"}]
    IN  IF res.threw THEN ErrorHandlerApply(called, InvalidUrl, nodeEnvNow)
        ELSE IF res.callbacks[1].error # {}
        THEN ErrorHandlerApply(called, NotAllowedByCors, nodeEnvNow)
        ELSE IF r.preflight
        THEN Sent([allowed EXCEPT !.pc = "done"], Response(204, "cors", {}, {}))
        ELSE [allowed EXCEPT !.pc = "cors_passed"]

\* X-Request-Id headers a client sends: none, an empty one, an id.
ClientRequestIds == {{}, {""}, {"custom-request-id-123"}}

\* Values of randomUUID().
Uuids == {"11111111-1111-4111-8111-111111111111", "22222222-2222-4222-8222-222222222222"}

\* Mutant: the generated id is used although the client sent one.
RequestLoggingOnRequestAlwaysGenerates(r, uuid) ==
    [r EXCEPT !.id = {uuid}, !.replyHeaders.xRequestId = {uuid}, !.pc = "routed"]

\* The onRequest hook of the request-logging plugin:
\* const requestId = request.headers["x-request-id"] || randomUUID();
\* request.id = requestId; reply.header("X-Request-Id", requestId)
RequestLoggingOnRequest(r, uuid) ==
    LET requestId == IF \E x \in r.xRequestId : x # "" THEN r.xRequestId ELSE {uuid}
    IN  [r EXCEPT !.id = requestId, !.replyHeaders.xRequestId = requestId,
                  !.pc = "routed"]

AppHeaders(key) == {NoAuthorization, Bearer(Sign([userId |-> 123], key, 0))}

RedirectError == Failure("moved", {}, {302}, {})

AppBehaviours ==
    {Returns, Invalid, Throws(PlainError), Throws(ForbiddenError),
     Throws(RedirectError), Throws(OutOfRangeError)}

\* A request arrives at the application with all plugins loaded.
ReceiveApp(i) ==
    /\ requests[i].pc = "idle"
    /\ \E o \in Origins, pf \in BOOLEAN, x \in ClientRequestIds, g \in BOOLEAN,
          h \in AppHeaders(secret), b \in AppBehaviours :
         requests' = [requests EXCEPT ![i] =
             [IdleRequest EXCEPT !.pc = "arrived", !.origin = o, !.preflight = pf,
                                 !.xRequestId = x, !.guarded = g,
                                 !.auth = IF g THEN h ELSE NoAuthorization,
                                 !.behaviour = b]]
    /\ UNCHANGED <<now, nodeEnv, secret, jwtSecretEnv, serverLog, jwtApi, proc>>

\* The plugins are loaded in the order of their file names, so the hook of
\* cors.ts is the first onRequest hook.
CorsHook(i) ==
    /\ requests[i].pc = "arrived"
    /\ requests' = [requests EXCEPT ![i] = CorsOnRequest(requests[i], nodeEnv)]
    /\ UNCHANGED <<now, nodeEnv, secret, jwtSecretEnv, serverLog, jwtApi, proc>>

\* The hook of request-logging.ts runs after it; the hooks of the route
\* (authenticate) come after the hooks of the plugins.
RequestLoggingHook(i) ==
    /\ requests[i].pc = "cors_passed"
    /\ \E uuid \in Uuids :
         requests' = [requests EXCEPT ![i] = RequestLoggingOnRequest(requests[i], uuid)]
    /\ UNCHANGED <<now, nodeEnv, secret, jwtSecretEnv, serverLog, jwtApi, proc>>

NextApp ==
    \/ ReceiveApp(1)
    \/ CorsHook(1)
    \/ RequestLoggingHook(1)
    \/ Dispatch(1)
    \/ JwtVerifySettle(1)
    \/ HookResolve(1)
    \/ HandlerSettle(1)
    \/ Recycle(1)

SpecApp == Init /\ [][NextApp]_vars

\* The CORS hook has run for the request.
PastCors(r) == r.pc \notin {"idle", "arrived"}

\* The hostname of the Origin is localhost or 127.0.0.1.
LocalOrigin(origin) ==
    \E o \in origin : \E u \in o.url : u.hostname \in {"localhost", "127.0.0.1"}

\* C21: a request without an Origin is allowed; one whose Origin has the
\* hostname localhost or 127.0.0.1 is allowed and gets
\* access-control-allow-origin equal to its Origin and credentials true;
\* one with any other Origin is rejected with the error "Not allowed by
\* CORS" and its route handler does not run.
C21_CorsOriginDecision ==
    \A i \in RequestIds :
        LET r == requests[i] IN
        PastCors(r) =>
            IF OriginMissing(r.origin)
            THEN r.corsCallbacks = <<CallbackAllow>> /\ r.raised # {NotAllowedByCors}
            ELSE IF LocalOrigin(r.origin)
            THEN /\ r.corsCallbacks = <<CallbackAllow>>
                 /\ r.replyHeaders.allowOrigin = {o.text : o \in r.origin}
                 /\ r.replyHeaders.allowCredentials = {"true"}
            ELSE /\ r.raised = {NotAllowedByCors}
                 /\ \A p \in r.resp : \A e \in p.error : e.message = "Not allowed by CORS"
                 /\ ~r.handlerRan

\* The client sent an X-Request-Id with a value.
ClientSuppliedId(r) == \E x \in r.xRequestId : x # ""

\* C22: once the request-logging hook has run for a request, request.id is
\* the client's X-Request-Id when it sent one with a value and a generated
\* UUID otherwise; the handler reads that id, and the response goes out
\* with X-Request-Id equal to it.
C22_RequestIdFromClientOrGenerated ==
    \A i \in RequestIds :
        LET r == requests[i] IN
        r.id # {} =>
            /\ ClientSuppliedId(r) => r.id = r.xRequestId
            /\ ~ClientSuppliedId(r) => r.id \subseteq Uuids
            /\ r.handlerRan => r.seenId = r.id
            /\ r.resp # {} => r.sentHeaders.xRequestId = r.id

\* A request without X-Request-Id was answered by its handler, which read
\* the generated id the response carries.
C22_Witness ==
    \E i \in RequestIds :
        /\ requests[i].pc = "done"
        /\ requests[i].xRequestId = {}
        /\ requests[i].handlerRan
        /\ requests[i].seenId # {}
        /\ requests[i].seenId \subseteq Uuids
        /\ requests[i].sentHeaders.xRequestId = requests[i].seenId

\* --------------------------------------------------------------- shutdown of the process

\* What starts closeGracefully: the two signals, and the handlers of
\* uncaughtException and unhandledRejection.
Signals == {"SIGTERM", "SIGINT"}
Faults == {"uncaughtException", "unhandledRejection"}
Triggers == Signals \cup Faults

\* process.exit was not called: the process is alive.
Alive == proc.exits = <<>>

\* A request is between its arrival and its response.
InFlight(r) == r.pc \notin {"idle", "done"}

\* closeGracefully(signal) up to its await: fastify.close() is called.
StartSequence(p, trigger) ==
    [p EXCEPT !.sequences = Append(@, [trigger |-> trigger, pc |-> "closing", closed |-> {}])]

\* await fastify.close() of sequence k settles: resolved (ok) or rejected.
CloseSettled(p, k, ok) ==
    [p EXCEPT !.sequences[k].pc = "closed", !.sequences[k].closed = {ok}]

\* The exit code closeGracefully ends with: process.exit(0) after the await
\* in the try block, process.exit(1) in the catch block.
ExitCode(sequence) == IF sequence.closed = {TRUE} THEN 0 ELSE 1

\* Mutant: fastify.close() is not awaited before process.exit(0).
CanExitWithoutAwait(sequence) == sequence.pc \in {"closing", "closed"}

\* closeGracefully goes on to process.exit once its await has settled.
CanExit(sequence) == sequence.pc = "closed"

\* The rest of closeGracefully for sequence k: process.exit(code).
Exited(p, k) ==
    [p EXCEPT !.sequences[k].pc = "exited",
              !.exits = Append(@, ExitCode(p.sequences[k]))]

\* A signal arrives or a fault is reported, and its handler calls
\* closeGracefully.
Trigger(trigger) ==
    /\ Alive
    /\ Len(proc.sequences) < MaxShutdowns
    /\ proc' = StartSequence(proc, trigger)
    /\ UNCHANGED <<requests, now, nodeEnv, secret, jwtSecretEnv, serverLog, jwtApi>>

\* fastify.close() of sequence k settles. It resolves only when no request
\* is in flight any more; it may reject (an onClose hook fails) at any time.
CloseSettle(k) ==
    /\ Alive
    /\ k \in DOMAIN proc.sequences
    /\ proc.sequences[k].pc = "closing"
    /\ \E ok \in BOOLEAN :
         /\ ok => \A i \in RequestIds : ~InFlight(requests[i])
         /\ proc' = CloseSettled(proc, k, ok)
    /\ UNCHANGED <<requests, now, nodeEnv, secret, jwtSecretEnv, serverLog, jwtApi>>

\* closeGracefully of sequence k resumes after its await and exits.
Exit(k) ==
    /\ Alive
    /\ k \in DOMAIN proc.sequences
    /\ CanExit(proc.sequences[k])
    /\ proc' = Exited(proc, k)
    /\ UNCHANGED <<requests, now, nodeEnv, secret, jwtSecretEnv, serverLog, jwtApi>>

\* A request arrives while the server is listening: not after close was called.
ReceiveWhileListening(i) ==
    /\ Alive
    /\ proc.sequences = <<>>
    /\ Arrive(i, {FALSE}, {NoAuthorization}, {Returns, Throws(PlainError)})

NextShutdown ==
    \/ \E i \in RequestIds : ReceiveWhileListening(i)
    \/ \E i \in RequestIds : Alive /\ Dispatch(i)
    \/ \E i \in RequestIds : Alive /\ HandlerSettle(i)
    \/ \E trigger \in Triggers : Trigger(trigger)
    \/ \E k \in 1..MaxShutdowns : CloseSettle(k)
    \/ \E k \in 1..MaxShutdowns : Exit(k)

SpecShutdown == Init /\ [][NextShutdown]_vars

\* C23: the process exits only through a shutdown sequence whose
\* fastify.close() has settled; a sequence started by SIGTERM or SIGINT
\* exits with 0 when its close resolved, and then no request is in flight,
\* and with 1 when its close rejected.
C23_ExitAfterCloseSettled ==
    /\ ~Alive => \E k \in DOMAIN proc.sequences : proc.sequences[k].pc = "exited"
    /\ \A k \in DOMAIN proc.sequences :
          LET sequence == proc.sequences[k] IN
          (sequence.pc = "exited" /\ sequence.trigger \in Signals) =>
              /\ sequence.closed # {}
              /\ sequence.closed = {TRUE} =>
                    /\ proc.exits = <<0>>
                    /\ \A i \in RequestIds : ~InFlight(requests[i])
              /\ sequence.closed = {FALSE} => proc.exits = <<1>>

\* A request was answered, the close of a sequence started by SIGTERM
\* resolved and the process exited with 0.
C23_Witness ==
    /\ proc.exits = <<0>>
    /\ \E k \in DOMAIN proc.sequences :
          /\ proc.sequences[k].trigger = "SIGTERM"
          /\ proc.sequences[k].pc = "exited"
    /\ \E i \in RequestIds : requests[i].pc = "done"

\* --------------------------------------------------------------- what the gate changes

\* C24: the step in which authenticate finishes for a request changes that
\* request only, and nothing of the process: on success request.user becomes
\* the claim set of the token and the reply is untouched (no status, header
\* or body); on failure the 401 response is written and request.user stays
\* unset.
C24_GateFrame ==
    [][\A i \in Slots :
          (requests[i].pc = "awaiting" /\ requests'[i] # requests[i]) =>
              /\ \A j \in Slots \ {i} : requests'[j] = requests[j]
              /\ UNCHANGED <<now, nodeEnv, secret, jwtSecretEnv, serverLog, jwtApi, proc>>
              /\ \/ \E tok \in requests[i].auth.cred :
                       requests'[i] = [requests[i] EXCEPT !.user = {tok.payload},
                                                          !.verify = "settled",
                                                          !.pc = "hook_resolved"]
                 \/ requests'[i] = [requests[i] EXCEPT !.resp = {Unauthorized401},
                                                       !.sends = 1,
                                                       !.gateFailed = TRUE,
                                                       !.verify = "settled",
                                                       !.pc = "hook_resolved"]
     ]_vars

\* The gate has let one request through with its identity and has answered
\* another with the 401.
C24_Witness ==
    \E i, j \in Slots :
        /\ requests[i].guarded /\ requests[i].user # {} /\ requests[i].resp = {}
        /\ requests[i].pc = "hook_resolved"
        /\ requests[j].gateFailed /\ requests[j].user = {}
        /\ requests[j].resp = {Unauthorized401}

\* --------------------------------------------------------------- JWT_SECRET after registration

\* Values JWT_SECRET is given while the server runs.
LaterSecretEnvs == JwtSecretEnvs \cup {"rotated-secret"}

\* process.env.JWT_SECRET is assigned or deleted after registration.
SetJwtSecretEnv(v) ==
    /\ jwtSecretEnv # v
    /\ jwtSecretEnv' = v
    /\ UNCHANGED <<requests, now, nodeEnv, secret, serverLog, jwtApi, proc>>

NextSecret ==
    \/ \E c \in ApiClaimSets, e \in ExpiryOptions : JwtSign(c, e)
    \/ JwtVerify
    \/ \E v \in LaterSecretEnvs : SetJwtSecretEnv(v)
    \/ Tick

SpecSecret == Init /\ [][NextSecret]_vars

\* C25: the secret of the server never changes after registration, whatever
\* JWT_SECRET becomes: every token fastify.jwt.sign issues is signed with
\* it, and every verification of such a token before its expiry succeeds
\* and returns its payload.
C25_SecretFixedAtRegistration ==
    /\ [](\A tok \in jwtApi.token :
            /\ tok.sig.key = secret
            /\ \A t \in jwtApi.verifiedAt : \A out \in jwtApi.outcome :
                  t < tok.payload.exp => out = VerifyOk(tok.payload))
    /\ [][secret' = secret]_vars

\* JWT_SECRET was changed to a value that would give another secret, then a
\* token was signed and verified.
C25_Witness ==
    /\ \E v \in jwtApi.secretEnvAtSign : RegisteredSecret(v) # secret
    /\ \E out \in jwtApi.outcome : out.ok

\* --------------------------------------------------------------- X-Request-Id on every response

\* C26: every response of the application goes out with an X-Request-Id
\* header, equal to the client's id when it sent one with a value: the
\* gate's 401, the error handler's responses and the responses that end a
\* request in the hook of another plugin, such as the CORS rejection.
C26_EveryResponseHasRequestId ==
    \A i \in RequestIds :
        LET r == requests[i] IN
        r.resp # {} =>
            /\ r.sentHeaders.xRequestId # {}
            /\ ClientSuppliedId(r) => r.sentHeaders.xRequestId = r.xRequestId

\* --------------------------------------------------------------- body status and HTTP status

\* C27: a response sent by the error handler or by authenticate has a body
\* with an "error" object whose statusCode is the HTTP status of the
\* response.
C27_BodyStatusEqualsHttpStatus ==
    \A i \in RequestIds :
        \A p \in requests[i].resp :
            p.by \in {"gate", "normalizer"} =>
                /\ p.error # {}
                /\ \A e \in p.error : e.statusCode = p.status

\* The error handler answered a schema validation failure, whose own status
\* is 400, with 422 in the status line and in the body.
C27_Witness ==
    \E i \in RequestIds :
        /\ requests[i].raised = {SchemaValidationFailure}
        /\ \E p \in requests[i].resp :
               /\ p.by = "normalizer"
               /\ p.status = 422
               /\ \A e \in p.error : e.statusCode = 422

\* --------------------------------------------------------------- the origin function's callback

\* C28: for every Origin header the origin function of the CORS options
\* calls its callback exactly once, with (null, true) or with the
\* 'Not allowed by CORS' error, and does not throw.
C28_CorsCallbackExactlyOnce ==
    \A i \in RequestIds :
        LET r == requests[i] IN
        PastCors(r) =>
            /\ Len(r.corsCallbacks) = 1
            /\ r.corsCallbacks[1] \in {CallbackAllow, CallbackDeny}
            /\ r.raised # {InvalidUrl}

\* --------------------------------------------------------------- one shutdown, and the exit code of a fault

\* C29: closeGracefully runs at most once: a trigger that arrives while a
\* shutdown is in progress starts no second sequence, and process.exit is
\* called at most once, with the exit code of the first sequence.
C29_ShutdownRunsOnce ==
    /\ Len(proc.sequences) <= 1
    /\ Len(proc.exits) <= 1
    /\ ~Alive => /\ proc.sequences[1].pc = "exited"
                 /\ proc.exits = <<ExitCode(proc.sequences[1])>>

\* C30: a shutdown started by uncaughtException or unhandledRejection ends
\* with a non-zero exit code, also when its fastify.close() resolved.
C30_FaultExitsNonZero ==
    \A k \in DOMAIN proc.sequences :
        (proc.sequences[k].trigger \in Faults /\ proc.sequences[k].pc = "exited") =>
            \A j \in DOMAIN proc.exits : proc.exits[j] # 0

====
